---- MODULE Spec2Model ----
(***************************************************************************)
(* Model of gfx's FactoryExt (src/render/src/factory.rs): the convenience  *)
(* operations every Factory gains.  Each extension method is an operator   *)
(* over the factory (the device) and the device's behaviour during the     *)
(* call; each action is one whole call of one method.                      *)
(*                                                                         *)
(* The factory value f is the device as the extension sees it:             *)
(*   f.next     the id of the next handle the device hands out             *)
(*   f.sampler  the SamplerInfo of the last sampler the device created     *)
(*   f.log      the device operations invoked so far in the current call   *)
(* The device is an external collaborator: whether one of its operations   *)
(* succeeds is an input of the call, the record beh.                       *)
(***************************************************************************)
EXTENDS Integers, Sequences, FiniteSets, TLC

VARIABLES factory, call, result

vars == <<factory, call, result>>

(***************************************************************************)
(* Bounds of the model.                                                    *)
(***************************************************************************)
\* calls are made while fewer than MaxHandles handles were handed out
MaxHandles == 3
\* low 32 bits of a slice length range over 0..MaxLen
MaxLen == 2
\* a usize length is hi * 2^32 + lo with hi in 0..MaxHi (hi > 0 needs a 64-bit usize)
MaxHi == 1

(***************************************************************************)
(* Values.                                                                 *)
(***************************************************************************)
\* a value returned by a method whose return type is no Result
Ret(v) == [tag |-> "Ret", val |-> v]
Ok(v) == [tag |-> "Ok", val |-> v]
Err(e) == [tag |-> "Err", val |-> e]
\* `.unwrap()` of an Err: the thread panics, the call returns nothing
Panic(e) == [tag |-> "Panic", val |-> e]

\* a usize too large for one TLC integer is kept as hi * 2^32 + lo
USize == [hi : 0..MaxHi, lo : 0..MaxLen]

\* `n as u32`: the low 32 bits
AsU32(n) == n.lo

\* the value a u32 denotes, as a usize
U32Value(x) == [hi |-> 0, lo |-> x]

Codes == {"code_a", "code_b"}
CreateShaderErrors == {"CompilationFailed", "StageNotSupported"}
LinkErrors == {"link_log"}
BufferErrors == {"UnsupportedBind", "Other"}
Primitives == {"LineList", "TriangleList", "TriangleStrip"}

NewFill == [front_face |-> "CounterClockwise", cull_face |-> "Nothing",
            method |-> "Fill", offset |-> "None", samples |-> "None"]
Rasterizers == {NewFill,
                [NewFill EXCEPT !.cull_face = "Back"],
                [NewFill EXCEPT !.method = "Line"]}

Names == {"a_Pos", "a_Color"}
NameOrder == <<"a_Pos", "a_Color">>
Formats == {"f3", "f4"}
\* a typed specification: the format it declares for each name, "none" if it
\* does not reference the name
Inits == [Names -> Formats \cup {"none"}]
\* a program's reflected interface: the format of each name it exposes
Infos == [Names -> Formats \cup {"none"}]

Filters == {"Bilinear", "Trilinear"}
WrapModes == {"Tile", "Clamp"}
SamplerInfoNew(filter, wrap) ==
  [filter |-> filter, wrap_mode |-> <<wrap, wrap, wrap>>]
NoSampler == [filter |-> "none", wrap_mode |-> <<"none", "none", "none">>]

(***************************************************************************)
(* The device: the base Factory operations the extension calls.            *)
(***************************************************************************)
\* the device notes the operation and what it returned
Logged(f, entry, ret) ==
  [f EXCEPT !.log = Append(@, [op |-> entry.op, arg |-> entry, ret |-> ret])]
Alloc(f) == [f EXCEPT !.next = @ + 1]

\* a device operation that hands out the handle h when it succeeds
DeviceCall(f, entry, outcome, h) ==
  IF outcome = "ok"
    THEN [f |-> Alloc(Logged(f, entry, Ok(h))), r |-> Ok(h)]
    ELSE [f |-> Logged(f, entry, Err(outcome)), r |-> Err(outcome)]

create_buffer_const(f, len, role, beh) ==
  DeviceCall(f, [op |-> "create_buffer_const", role |-> role, len |-> len], beh,
             [kind |-> "Buffer", id |-> f.next, role |-> role,
              usage |-> "Const", len |-> len])

create_buffer_dynamic(f, num, role, beh) ==
  DeviceCall(f, [op |-> "create_buffer_dynamic", role |-> role, len |-> num], beh,
             [kind |-> "Buffer", id |-> f.next, role |-> role,
              usage |-> "Dynamic", len |-> num])

create_shader_vertex(f, code, beh) ==
  DeviceCall(f, [op |-> "create_shader_vertex", code |-> code], beh,
             [kind |-> "VertexShader", id |-> f.next, code |-> code])

create_shader_pixel(f, code, beh) ==
  DeviceCall(f, [op |-> "create_shader_pixel", code |-> code], beh,
             [kind |-> "PixelShader", id |-> f.next, code |-> code])

\* beh.link is "ok" or the link error; beh.info the linked program's interface
create_program(f, set, beh) ==
  DeviceCall(f, [op |-> "create_program", set |-> set], beh.link,
             [kind |-> "Program", id |-> f.next, info |-> beh.info])

create_pipeline_state_raw(f, program, descriptor, beh) ==
  DeviceCall(f, [op |-> "create_pipeline_state_raw",
                 program |-> program, descriptor |-> descriptor], beh,
             [kind |-> "RawPipelineState", id |-> f.next])

\* sampler creation cannot fail
create_sampler(f, info) ==
  LET h == [kind |-> "Sampler", id |-> f.next, info |-> info]
      g == Logged(f, [op |-> "create_sampler", info |-> info], Ret(h))
  IN [f |-> [Alloc(g) EXCEPT !.sampler = info], r |-> h]

\* handle::Buffer::len(): the element count of the buffer
BufferLen(buffer) == buffer.len

\* Descriptor::new(primitive, rasterizer): no binding slot filled yet
DescriptorNew(primitive, rasterizer) ==
  [primitive |-> primitive, rasterizer |-> rasterizer,
   attributes |-> [n \in Names |-> "none"]]

PipelineStateNew(raw, primitive, meta) ==
  [raw |-> raw, primitive |-> primitive, meta |-> meta]

(***************************************************************************)
(* The caller's collaborators: the typed specification and the index input *)
(***************************************************************************)
\* the names of the specification the program cannot serve: absent from its
\* interface, or exposed there with another format
Mismatched(init, info) ==
  {i \in 1..Len(NameOrder) :
     /\ init[NameOrder[i]] # "none"
     /\ info[NameOrder[i]] # init[NameOrder[i]]}

\* init.link_to(&mut descriptor, info): fills the descriptor's slots and
\* returns the Meta, or the InitError of the first name that does not match
LinkTo(init, descriptor, info) ==
  LET bad == Mismatched(init, info)
  IN IF bad = {}
       THEN [descriptor |-> [descriptor EXCEPT !.attributes = init],
             r |-> Ok([i \in 1..Len(NameOrder) |->
                         IF init[NameOrder[i]] = "none" THEN -1 ELSE i - 1])]
       ELSE LET i == CHOOSE i \in bad : \A j \in bad : i <= j
            IN [descriptor |-> descriptor,
                r |-> Err([name |-> NameOrder[i], found |-> info[NameOrder[i]]])]

\* the index inputs: () for Auto, a slice of u16 or of u32 indices
IndexInputs ==
  {[kind |-> "Auto", len |-> [hi |-> 0, lo |-> 0]]}
    \cup [kind : {"u16", "u32"}, len : USize]

\* indices.into_index_buffer(factory): its result is an IndexBuffer, not a
\* Result, so a failed allocation can only end the call
IntoIndexBuffer(indices, f, beh) ==
  IF indices.kind = "Auto"
    THEN [f |-> f, r |-> Ret([kind |-> "Auto"])]
    ELSE LET b == create_buffer_const(f, indices.len, "Index", beh.ibuf)
         IN IF b.r.tag = "Ok"
              THEN [f |-> b.f,
                    r |-> Ret([kind |-> IF indices.kind = "u16" THEN "Index16"
                                        ELSE "Index32",
                               buf |-> b.r.val])]
              ELSE [f |-> b.f, r |-> Panic(b.r.val)]

(***************************************************************************)
(* FactoryExt: the extension methods.  Each returns the factory after the  *)
(* call, f, and what the caller gets, r.                                   *)
(***************************************************************************)
create_vertex_buffer(f, vertices, beh) ==
  LET b == create_buffer_const(f, vertices, "Vertex", beh.vbuf)
  IN IF b.r.tag = "Ok"
       THEN [f |-> b.f, r |-> Ret(b.r.val)]
       ELSE [f |-> b.f, r |-> Panic(b.r.val)]

create_vertex_buffer_with_slice(f, vertices, indices, beh) ==
  LET vb == create_vertex_buffer(f, vertices, beh)
  IN IF vb.r.tag = "Panic" THEN vb
     ELSE
       LET ib == IntoIndexBuffer(indices, vb.f, beh)
       IN IF ib.r.tag = "Panic" THEN ib
          ELSE
            LET vertex_buffer == vb.r.val
                index_buffer == ib.r.val
                buffer_length ==
                  IF index_buffer.kind = "Auto"
                    THEN BufferLen(vertex_buffer)
                    ELSE BufferLen(index_buffer.buf)
            IN [f |-> ib.f,
                r |-> Ret(<<vertex_buffer,
                            [start |-> 0,
                             end |-> AsU32(buffer_length),
                             base_vertex |-> 0,
                             instances |-> "None",
                             buffer |-> index_buffer]>>)]

create_constant_buffer(f, num, beh) ==
  LET b == create_buffer_dynamic(f, num, "Uniform", beh.cbuf)
  IN IF b.r.tag = "Ok"
       THEN [f |-> b.f, r |-> Ret(b.r.val)]
       ELSE [f |-> b.f, r |-> Panic(b.r.val)]

\* a create_shader_set that compiles both stages before it looks at either result
create_shader_set_eager(f, vs_code, ps_code, beh) ==
  LET vs == create_shader_vertex(f, vs_code, beh.vs)
      ps == create_shader_pixel(vs.f, ps_code, beh.ps)
  IN IF vs.r.tag = "Err"
       THEN [f |-> ps.f, r |-> Err([stage |-> "Vertex", e |-> vs.r.val])]
       ELSE IF ps.r.tag = "Err"
              THEN [f |-> ps.f, r |-> Err([stage |-> "Pixel", e |-> ps.r.val])]
              ELSE [f |-> ps.f,
                    r |-> Ok([kind |-> "Simple", vs |-> vs.r.val, ps |-> ps.r.val])]

\* a create_shader_set that tags every compile error as a vertex error
create_shader_set_mistagged(f, vs_code, ps_code, beh) ==
  LET vs == create_shader_vertex(f, vs_code, beh.vs)
  IN IF vs.r.tag = "Err"
       THEN [f |-> vs.f, r |-> Err([stage |-> "Vertex", e |-> vs.r.val])]
       ELSE
         LET ps == create_shader_pixel(vs.f, ps_code, beh.ps)
         IN IF ps.r.tag = "Err"
              THEN [f |-> ps.f, r |-> Err([stage |-> "Vertex", e |-> ps.r.val])]
              ELSE [f |-> ps.f,
                    r |-> Ok([kind |-> "Simple", vs |-> vs.r.val, ps |-> ps.r.val])]

create_shader_set(f, vs_code, ps_code, beh) ==
  LET vs == create_shader_vertex(f, vs_code, beh.vs)
  IN IF vs.r.tag = "Err"
       THEN [f |-> vs.f, r |-> Err([stage |-> "Vertex", e |-> vs.r.val])]
       ELSE
         LET ps == create_shader_pixel(vs.f, ps_code, beh.ps)
         IN IF ps.r.tag = "Err"
              THEN [f |-> ps.f, r |-> Err([stage |-> "Pixel", e |-> ps.r.val])]
              ELSE [f |-> ps.f,
                    r |-> Ok([kind |-> "Simple", vs |-> vs.r.val, ps |-> ps.r.val])]

link_program(f, vs_code, ps_code, beh) ==
  LET set == create_shader_set(f, vs_code, ps_code, beh)
  IN IF set.r.tag = "Err" THEN set
     ELSE
       LET p == create_program(set.f, set.r.val, beh)
       IN IF p.r.tag = "Err"
            THEN [f |-> p.f, r |-> Err([stage |-> "Link", e |-> p.r.val])]
            ELSE p

\* a create_pipeline_from_program that submits the descriptor to the device
\* before it looks at the result of link_to
create_pipeline_from_program_device_first(f, program, primitive, rasterizer, init, beh) ==
  LET descriptor == DescriptorNew(primitive, rasterizer)
      linked == LinkTo(init, descriptor, program.info)
      raw == create_pipeline_state_raw(f, program, linked.descriptor, beh.raw)
  IN IF raw.r.tag = "Err"
       THEN [f |-> raw.f, r |-> Err([kind |-> "DeviceCreate", e |-> raw.r.val])]
       ELSE IF linked.r.tag = "Err"
              THEN [f |-> raw.f,
                    r |-> Err([kind |-> "DescriptorInit", e |-> linked.r.val])]
              ELSE [f |-> raw.f,
                    r |-> Ok(PipelineStateNew(raw.r.val, primitive, linked.r.val))]

\* a create_pipeline_from_program that stores the descriptor's default
\* topology instead of the caller's
create_pipeline_from_program_fixed_primitive(f, program, primitive, rasterizer, init, beh) ==
  LET descriptor == DescriptorNew(primitive, rasterizer)
      linked == LinkTo(init, descriptor, program.info)
  IN IF linked.r.tag = "Err"
       THEN [f |-> f, r |-> Err([kind |-> "DescriptorInit", e |-> linked.r.val])]
       ELSE
         LET raw == create_pipeline_state_raw(f, program, linked.descriptor, beh.raw)
         IN IF raw.r.tag = "Err"
              THEN [f |-> raw.f,
                    r |-> Err([kind |-> "DeviceCreate", e |-> raw.r.val])]
              ELSE [f |-> raw.f,
                    r |-> Ok(PipelineStateNew(raw.r.val, "TriangleList",
                                              linked.r.val))]

create_pipeline_from_program(f, program, primitive, rasterizer, init, beh) ==
  LET descriptor == DescriptorNew(primitive, rasterizer)
      linked == LinkTo(init, descriptor, program.info)
  IN IF linked.r.tag = "Err"
       THEN [f |-> f, r |-> Err([kind |-> "DescriptorInit", e |-> linked.r.val])]
       ELSE
         LET raw == create_pipeline_state_raw(f, program, linked.descriptor, beh.raw)
         IN IF raw.r.tag = "Err"
              THEN [f |-> raw.f,
                    r |-> Err([kind |-> "DeviceCreate", e |-> raw.r.val])]
              ELSE [f |-> raw.f,
                    r |-> Ok(PipelineStateNew(raw.r.val, primitive, linked.r.val))]

\* a create_pipeline_state that reports a link failure as the device's refusal
create_pipeline_state_masked(f, shaders, primitive, rasterizer, init, beh) ==
  LET p == create_program(f, shaders, beh)
  IN IF p.r.tag = "Ok"
       THEN create_pipeline_from_program(p.f, p.r.val, primitive, rasterizer,
                                         init, beh)
       ELSE [f |-> p.f, r |-> Err([kind |-> "DeviceCreate", e |-> "CreationError"])]

\* a create_pipeline_state that links a second time when the first link fails
create_pipeline_state_retry(f, shaders, primitive, rasterizer, init, beh) ==
  LET first == create_program(f, shaders, beh)
      p == IF first.r.tag = "Ok" THEN first
           ELSE create_program(first.f, shaders, beh)
  IN IF p.r.tag = "Ok"
       THEN create_pipeline_from_program(p.f, p.r.val, primitive, rasterizer,
                                         init, beh)
       ELSE [f |-> p.f,
             r |-> Err([kind |-> "Program",
                        e |-> [stage |-> "Link", e |-> p.r.val]])]

create_pipeline_state(f, shaders, primitive, rasterizer, init, beh) ==
  LET p == create_program(f, shaders, beh)
  IN IF p.r.tag = "Ok"
       THEN create_pipeline_from_program(p.f, p.r.val, primitive, rasterizer,
                                         init, beh)
       ELSE [f |-> p.f,
             r |-> Err([kind |-> "Program",
                        e |-> [stage |-> "Link", e |-> p.r.val]])]

\* a create_pipeline_simple that draws triangle strips
create_pipeline_simple_strip(f, vs, ps, init, beh) ==
  LET s == create_shader_set(f, vs, ps, beh)
  IN IF s.r.tag = "Ok"
       THEN create_pipeline_state(s.f, s.r.val, "TriangleStrip", NewFill, init, beh)
       ELSE [f |-> s.f, r |-> Err([kind |-> "Program", e |-> s.r.val])]

create_pipeline_simple(f, vs, ps, init, beh) ==
  LET s == create_shader_set(f, vs, ps, beh)
  IN IF s.r.tag = "Ok"
       THEN create_pipeline_state(s.f, s.r.val, "TriangleList", NewFill, init, beh)
       ELSE [f |-> s.f, r |-> Err([kind |-> "Program", e |-> s.r.val])]

\* a create_sampler_linear that asks again for the factory's last sampler
create_sampler_linear_reuse(f) ==
  LET info == IF f.sampler = NoSampler
                THEN SamplerInfoNew("Trilinear", "Clamp") ELSE f.sampler
      s == create_sampler(f, info)
  IN [f |-> s.f, r |-> Ret(s.r)]

create_sampler_linear(f) ==
  LET s == create_sampler(f, SamplerInfoNew("Trilinear", "Clamp"))
  IN [f |-> s.f, r |-> Ret(s.r)]

(***************************************************************************)
(* The device's behaviour during one call: the outcome of each of its      *)
(* operations, "ok" or the error it returns.                               *)
(***************************************************************************)
ShaderOutcomes == {"ok"} \cup CreateShaderErrors
BufferOutcomes == {"ok"} \cup BufferErrors
RawOutcomes == {"ok", "CreationError"}
\* a link that succeeds yields a program with some interface
LinkOutcomes ==
  [link : {"ok"}, info : Infos]
    \cup [link : LinkErrors, info : {[n \in Names |-> "none"]}]

WithRaw(lk, raw) == [link |-> lk.link, info |-> lk.info, raw |-> raw]
WithShaders(b, vs, ps) ==
  [link |-> b.link, info |-> b.info, raw |-> b.raw, vs |-> vs, ps |-> ps]

\* what create_pipeline_from_program and create_pipeline_state consult
PipelineBehaviours == {WithRaw(lk, raw) : lk \in LinkOutcomes, raw \in RawOutcomes}
\* what link_program consults
LinkBehaviours ==
  [link : {"ok"}, info : Infos, vs : ShaderOutcomes, ps : ShaderOutcomes]
    \cup [link : LinkErrors, info : {[n \in Names |-> "none"]},
          vs : ShaderOutcomes, ps : ShaderOutcomes]
\* what create_pipeline_simple consults
FullBehaviours ==
  {WithShaders(b, vs, ps) :
     b \in PipelineBehaviours, vs \in ShaderOutcomes, ps \in ShaderOutcomes}

\* the handles a caller holds from earlier calls
HeldShaderSets ==
  {[kind |-> "Simple",
    vs |-> [kind |-> "VertexShader", id |-> 0, code |-> c],
    ps |-> [kind |-> "PixelShader", id |-> 1, code |-> c]] : c \in Codes}
HeldPrograms == [kind : {"Program"}, id : {0}, info : Infos]

(***************************************************************************)
(* The state machine: one action per call of a method.  call records the   *)
(* method, the factory it was called on (pre), its arguments and the       *)
(* device's behaviour; result is what the caller got.  The methods take    *)
(* &mut self, so the calls on one factory never overlap.                   *)
(***************************************************************************)
Init ==
  /\ factory = [next |-> 0, sampler |-> NoSampler, log |-> <<>>]
  /\ call = [op |-> "none"]
  /\ result = [tag |-> "None"]

\* the factory as a call finds it: the call's own log is empty
Entry == [factory EXCEPT !.log = <<>>]
\* no call is in progress and the device still has handles to hand out
CanCall == result.tag = "None" /\ factory.next < MaxHandles

Returns(out) ==
  /\ factory' = out.f
  /\ result' = out.r

CallCreateVertexBuffer ==
  /\ CanCall
  /\ \E vertices \in USize, vbuf \in BufferOutcomes :
       LET beh == [vbuf |-> vbuf]
       IN /\ call' = [op |-> "create_vertex_buffer", pre |-> Entry,
                      vertices |-> vertices, beh |-> beh]
          /\ Returns(create_vertex_buffer(Entry, vertices, beh))

CallCreateVertexBufferWithSlice ==
  /\ CanCall
  /\ \E vertices \in USize, indices \in IndexInputs,
        vbuf \in BufferOutcomes, ibuf \in BufferOutcomes :
       LET beh == [vbuf |-> vbuf, ibuf |-> ibuf]
       IN /\ call' = [op |-> "create_vertex_buffer_with_slice", pre |-> Entry,
                      vertices |-> vertices, indices |-> indices, beh |-> beh]
          /\ Returns(create_vertex_buffer_with_slice(Entry, vertices, indices, beh))

CallCreateConstantBuffer ==
  /\ CanCall
  /\ \E num \in USize, cbuf \in BufferOutcomes :
       LET beh == [cbuf |-> cbuf]
       IN /\ call' = [op |-> "create_constant_buffer", pre |-> Entry,
                      num |-> num, beh |-> beh]
          /\ Returns(create_constant_buffer(Entry, num, beh))

CallCreateShaderSet ==
  /\ CanCall
  /\ \E vs_code \in Codes, ps_code \in Codes,
        vs \in ShaderOutcomes, ps \in ShaderOutcomes :
       LET beh == [vs |-> vs, ps |-> ps]
       IN /\ call' = [op |-> "create_shader_set", pre |-> Entry,
                      vs_code |-> vs_code, ps_code |-> ps_code, beh |-> beh]
          /\ Returns(create_shader_set(Entry, vs_code, ps_code, beh))

CallLinkProgram ==
  /\ CanCall
  /\ \E vs_code \in Codes, ps_code \in Codes, beh \in LinkBehaviours :
       /\ call' = [op |-> "link_program", pre |-> Entry,
                   vs_code |-> vs_code, ps_code |-> ps_code, beh |-> beh]
       /\ Returns(link_program(Entry, vs_code, ps_code, beh))

CallCreatePipelineState ==
  /\ CanCall
  /\ \E shaders \in HeldShaderSets, primitive \in Primitives,
        rasterizer \in Rasterizers, init \in Inits, beh \in PipelineBehaviours :
       /\ call' = [op |-> "create_pipeline_state", pre |-> Entry,
                   shaders |-> shaders, primitive |-> primitive,
                   rasterizer |-> rasterizer, init |-> init, beh |-> beh]
       /\ Returns(create_pipeline_state(Entry, shaders, primitive, rasterizer,
                                        init, beh))

CallCreatePipelineFromProgram ==
  /\ CanCall
  /\ \E program \in HeldPrograms, primitive \in Primitives,
        rasterizer \in Rasterizers, init \in Inits, raw \in RawOutcomes :
       LET beh == [raw |-> raw]
       IN /\ call' = [op |-> "create_pipeline_from_program", pre |-> Entry,
                      program |-> program, primitive |-> primitive,
                      rasterizer |-> rasterizer, init |-> init, beh |-> beh]
          /\ Returns(create_pipeline_from_program(Entry, program, primitive,
                                                  rasterizer, init, beh))

CallCreatePipelineSimple ==
  /\ CanCall
  /\ \E vs \in Codes, ps \in Codes, init \in Inits, beh \in FullBehaviours :
       /\ call' = [op |-> "create_pipeline_simple", pre |-> Entry,
                   vs_code |-> vs, ps_code |-> ps, init |-> init, beh |-> beh]
       /\ Returns(create_pipeline_simple(Entry, vs, ps, init, beh))

CallCreateSamplerLinear ==
  /\ CanCall
  /\ call' = [op |-> "create_sampler_linear", pre |-> Entry]
  /\ Returns(create_sampler_linear(Entry))

\* the base Factory's own sampler creation, with any SamplerInfo
CallCreateSampler ==
  /\ CanCall
  /\ \E filter \in Filters, wrap \in WrapModes :
       LET out == create_sampler(Entry, SamplerInfoNew(filter, wrap))
       IN /\ call' = [op |-> "create_sampler", pre |-> Entry,
                      info |-> SamplerInfoNew(filter, wrap)]
          /\ Returns([f |-> out.f, r |-> Ret(out.r)])

\* the caller takes what the call returned and the factory is free for the
\* next call; a call that panicked never returns
Return ==
  /\ result.tag \in {"Ret", "Ok", "Err"}
  /\ call' = [op |-> "none"]
  /\ result' = [tag |-> "None"]
  /\ factory' = Entry

Next ==
  \/ Return
  \/ CallCreateVertexBuffer
  \/ CallCreateVertexBufferWithSlice
  \/ CallCreateConstantBuffer
  \/ CallCreateShaderSet
  \/ CallLinkProgram
  \/ CallCreatePipelineState
  \/ CallCreatePipelineFromProgram
  \/ CallCreatePipelineSimple
  \/ CallCreateSamplerLinear
  \/ CallCreateSampler

Spec == Init /\ [][Next]_vars

(***************************************************************************)
(* Properties.  A state with call.op = m is the state right after a call   *)
(* of m: factory.log holds the device operations of that call, in order.   *)
(***************************************************************************)
Log == factory.log
Entries(op) == {i \in DOMAIN Log : Log[i].op = op}
Invoked(op) == Entries(op) # {}
\* the device operation op failed during the call
Failed(op) == \E i \in Entries(op) : Log[i].ret.tag = "Err"
Failure(op) == Log[CHOOSE i \in Entries(op) : Log[i].ret.tag = "Err"].ret.val
\* what the device returned from its (successful) operation op
Returned(op) == Log[CHOOSE i \in Entries(op) : Log[i].ret.tag = "Ok"].ret.val

After(op) == call.op = op

\* C1: in create_shader_set, when the device's create_shader_vertex fails,
\* create_shader_pixel is not invoked and the error returned is
\* ProgramError::Vertex carrying the device's error, whatever ps_code is.
C1_VertexFailureShortCircuits ==
  (After("create_shader_set") /\ call.beh.vs # "ok") =>
    /\ Failed("create_shader_vertex")
    /\ ~Invoked("create_shader_pixel")
    /\ result = Err([stage |-> "Vertex", e |-> Failure("create_shader_vertex")])
    /\ Failure("create_shader_vertex") = call.beh.vs

\* a vertex compile failure with a pixel shader the device would have accepted
C1_Witness ==
  /\ After("create_shader_set")
  /\ call.beh.vs = "StageNotSupported"
  /\ call.beh.ps = "ok"
  /\ result.tag = "Err"

\* C2: in create_shader_set, when create_shader_vertex succeeds and
\* create_shader_pixel fails, the error is ProgramError::Pixel carrying the
\* device's pixel error, never ProgramError::Vertex; and a Pixel error is
\* returned only when the vertex stage was compiled successfully first.
C2_PixelFailureAfterVertex ==
  After("create_shader_set") =>
    /\ (call.beh.vs = "ok" /\ call.beh.ps # "ok") =>
         /\ Failed("create_shader_pixel")
         /\ result = Err([stage |-> "Pixel", e |-> Failure("create_shader_pixel")])
         /\ Failure("create_shader_pixel") = call.beh.ps
    /\ (result.tag = "Err" /\ result.val.stage = "Pixel") =>
         /\ Len(Log) = 2
         /\ Log[1].op = "create_shader_vertex" /\ Log[1].ret.tag = "Ok"
         /\ Log[2].op = "create_shader_pixel" /\ Log[2].ret.tag = "Err"

\* a valid vertex shader with an invalid pixel shader
C2_Witness ==
  /\ After("create_shader_set")
  /\ call.beh.vs = "ok"
  /\ call.beh.ps = "CompilationFailed"
  /\ result.tag = "Err"
  /\ result.val.stage = "Pixel"

\* the outcome of the specification's link_to in the call of
\* create_pipeline_from_program the state records
CalledLinkTo ==
  LinkTo(call.init, DescriptorNew(call.primitive, call.rasterizer),
         call.program.info)

\* C3: in create_pipeline_from_program, when link_to fails the result is
\* PipelineStateError::DescriptorInit, never DeviceCreate, and the device's
\* create_pipeline_state_raw is not invoked, whatever the device would say.
C3_LinkFailureIsDescriptorInit ==
  (After("create_pipeline_from_program") /\ CalledLinkTo.r.tag = "Err") =>
    /\ result = Err([kind |-> "DescriptorInit", e |-> CalledLinkTo.r.val])
    /\ ~Invoked("create_pipeline_state_raw")
    /\ Log = <<>>

\* the specification names an attribute the program does not expose, and the
\* device would have refused the descriptor
C3_Witness ==
  /\ After("create_pipeline_from_program")
  /\ \E n \in Names : call.init[n] # "none" /\ call.program.info[n] = "none"
  /\ call.beh.raw = "CreationError"
  /\ result.tag = "Err"

\* the IndexBuffer variant an index input turns into
VariantOf(indices) ==
  CASE indices.kind = "Auto" -> "Auto"
    [] indices.kind = "u16" -> "Index16"
    [] indices.kind = "u32" -> "Index32"

\* C4: for every vertex sequence V and index input I,
\* create_vertex_buffer_with_slice(V, I) returns a Slice with start = 0,
\* base_vertex = 0, instances = None, the index variant made from I, and end
\* equal to the index buffer's element count (Index16, Index32) or len(V) (Auto).
C4_SliceCoversTheBuffer ==
  After("create_vertex_buffer_with_slice") =>
    /\ result.tag = "Ret"
    /\ LET slice == result.val[2]
       IN /\ slice.start = 0
          /\ slice.base_vertex = 0
          /\ slice.instances = "None"
          /\ slice.buffer.kind = VariantOf(call.indices)
          /\ U32Value(slice.end) =
               IF slice.buffer.kind = "Auto" THEN call.vertices
               ELSE BufferLen(slice.buffer.buf)

\* the same of the calls that return: a length of 2^32 or more does not fit
\* the Slice's u32 end
ReturnedSliceCoversTheBuffer ==
  (After("create_vertex_buffer_with_slice") /\ result.tag = "Ret") =>
    LET slice == result.val[2]
    IN U32Value(slice.end) =
         IF slice.buffer.kind = "Auto" THEN call.vertices
         ELSE BufferLen(slice.buffer.buf)

\* C5: when the device's buffer allocation fails, create_vertex_buffer and
\* create_vertex_buffer_with_slice return that failure to the caller as an
\* error value: the call does not abort.
C5_AllocationFailureIsReturned ==
  ((After("create_vertex_buffer") \/ After("create_vertex_buffer_with_slice"))
     /\ Failed("create_buffer_const")) =>
    /\ result.tag = "Err"
    /\ result.val = Failure("create_buffer_const")

\* create_shader_set followed by create_pipeline_state with a triangle list
\* and Rasterizer::new_fill(), a shader-set error e returned as Program(e)
ShaderSetThenPipelineState(f, vs, ps, init, beh) ==
  LET set == create_shader_set(f, vs, ps, beh)
  IN IF set.r.tag = "Err"
       THEN [f |-> set.f, r |-> Err([kind |-> "Program", e |-> set.r.val])]
       ELSE create_pipeline_state(set.f, set.r.val, "TriangleList", NewFill,
                                  init, beh)

\* C6: create_pipeline_simple(vs, ps, init) has the outcome of
\* create_shader_set(vs, ps) followed by create_pipeline_state(set,
\* TriangleList, new_fill, init): the same device calls in the same order,
\* the same primitive and rasterizer in the descriptor, the same result.
C6_SimpleIsShaderSetThenPipelineState ==
  After("create_pipeline_simple") =>
    LET two == ShaderSetThenPipelineState(call.pre, call.vs_code, call.ps_code,
                                          call.init, call.beh)
    IN /\ Log = two.f.log
       /\ factory = two.f
       /\ result = two.r
       /\ \A i \in Entries("create_pipeline_state_raw") :
            /\ Log[i].arg.descriptor.primitive = "TriangleList"
            /\ Log[i].arg.descriptor.rasterizer = NewFill

\* a create_pipeline_simple that went through every stage
C6_Witness ==
  /\ After("create_pipeline_simple")
  /\ result.tag = "Ok"
  /\ Invoked("create_pipeline_state_raw")

\* the program the pipeline of the recorded call is built for
PipelineProgram ==
  IF After("create_pipeline_from_program") THEN call.program
  ELSE Returned("create_program")

PipelineLinkTo ==
  LinkTo(call.init, DescriptorNew(call.primitive, call.rasterizer),
         PipelineProgram.info)

\* C7: when create_pipeline_state or create_pipeline_from_program succeeds,
\* the PipelineState holds the caller's primitive, the raw handle the device
\* returned in this call and the Meta link_to returned in this call; the
\* descriptor submitted was built from that primitive and rasterizer.
C7_PipelineStateHoldsWhatWasBuilt ==
  ((After("create_pipeline_state") \/ After("create_pipeline_from_program"))
     /\ result.tag = "Ok") =>
    /\ result.val.primitive = call.primitive
    /\ Cardinality(Entries("create_pipeline_state_raw")) = 1
    /\ result.val.raw = Returned("create_pipeline_state_raw")
    /\ PipelineLinkTo.r.tag = "Ok"
    /\ result.val.meta = PipelineLinkTo.r.val
    /\ \A i \in Entries("create_pipeline_state_raw") :
         /\ Log[i].arg.descriptor.primitive = call.primitive
         /\ Log[i].arg.descriptor.rasterizer = call.rasterizer
         /\ Log[i].arg.descriptor = PipelineLinkTo.descriptor
         /\ Log[i].arg.program = PipelineProgram

\* a pipeline built for a topology and a rasterizer that are not the defaults
C7_Witness ==
  /\ After("create_pipeline_state")
  /\ result.tag = "Ok"
  /\ call.primitive = "LineList"
  /\ call.rasterizer # NewFill
  /\ \E n \in Names : call.init[n] # "none"

\* the stage of create_pipeline_simple that fails first, in the order vertex
\* compile, pixel compile, program link, descriptor link, device create
EarliestFailure(c) ==
  CASE c.beh.vs # "ok" -> "Program(Vertex)"
    [] c.beh.vs = "ok" /\ c.beh.ps # "ok" -> "Program(Pixel)"
    [] c.beh.vs = "ok" /\ c.beh.ps = "ok" /\ c.beh.link # "ok" -> "Program(Link)"
    [] c.beh.vs = "ok" /\ c.beh.ps = "ok" /\ c.beh.link = "ok"
         /\ Mismatched(c.init, c.beh.info) # {} -> "DescriptorInit"
    [] c.beh.vs = "ok" /\ c.beh.ps = "ok" /\ c.beh.link = "ok"
         /\ Mismatched(c.init, c.beh.info) = {}
         /\ c.beh.raw # "ok" -> "DeviceCreate"
    [] OTHER -> "Ok"

\* the variant of a PipelineStateError result, "Ok" for a success
Variant(r) ==
  IF r.tag = "Ok" THEN "Ok"
  ELSE IF r.val.kind = "Program" THEN "Program(" \o r.val.e.stage \o ")"
       ELSE r.val.kind

\* C8: create_pipeline_simple returns the error of the earliest failing
\* stage (Program(Vertex), Program(Pixel), Program(Link), DescriptorInit,
\* DeviceCreate) and Ok only when all five stages succeed.
C8_EarliestFailureWins ==
  After("create_pipeline_simple") =>
    /\ result.tag \in {"Ok", "Err"}
    /\ Variant(result) = EarliestFailure(call)

\* the link fails, and the device would also have refused the pipeline
C8_Witness ==
  /\ After("create_pipeline_simple")
  /\ call.beh.vs = "ok" /\ call.beh.ps = "ok"
  /\ call.beh.link # "ok"
  /\ call.beh.raw # "ok"
  /\ result.tag = "Err"

\* the device operations of a pipeline build, in stage order
StageOrder ==
  <<"create_shader_vertex", "create_shader_pixel", "create_program",
    "create_pipeline_state_raw">>
Stage(op) == CHOOSE k \in DOMAIN StageOrder : StageOrder[k] = op
\* the stage a method starts at
FirstStage(m) ==
  CASE m = "link_program" -> 1
    [] m = "create_pipeline_simple" -> 1
    [] m = "create_pipeline_state" -> 3
    [] m = "create_pipeline_from_program" -> 4
\* the last stage a method can reach
LastStage(m) == IF m = "link_program" THEN 3 ELSE 4
PipelineMethods ==
  {"link_program", "create_pipeline_state", "create_pipeline_from_program",
   "create_pipeline_simple"}

\* C9: in one call of link_program, create_pipeline_state,
\* create_pipeline_from_program or create_pipeline_simple each device
\* operation is invoked at most once, only after every earlier stage
\* succeeded, and none is invoked after a stage failed.
C9_NothingIsRetried ==
  call.op \in PipelineMethods =>
    /\ \A i \in DOMAIN Log :
         /\ Log[i].op \in {StageOrder[k] : k \in DOMAIN StageOrder}
         /\ Stage(Log[i].op) = FirstStage(call.op) + i - 1
         /\ Stage(Log[i].op) <= LastStage(call.op)
         /\ i < Len(Log) => Log[i].ret.tag = "Ok"
    /\ \A k \in DOMAIN StageOrder : Cardinality(Entries(StageOrder[k])) <= 1
    /\ \A i \in Entries("create_pipeline_state_raw") :
         Mismatched(call.init, Log[i].arg.program.info) = {}

\* a link failure in create_pipeline_state: the one create_program is the end
C9_Witness ==
  /\ After("create_pipeline_state")
  /\ Failed("create_program")
  /\ Len(Log) = 1
  /\ result.tag = "Err"

\* C10: every call of create_sampler_linear issues exactly one
\* create_sampler request, with filter Trilinear and wrap mode Clamp,
\* whatever was done on the factory before.
C10_LinearSamplerIsTrilinearClamp ==
  After("create_sampler_linear") =>
    /\ Len(Log) = 1
    /\ Log[1].op = "create_sampler"
    /\ Log[1].arg.info.filter = "Trilinear"
    /\ Log[1].arg.info.wrap_mode = <<"Clamp", "Clamp", "Clamp">>
    /\ result = Ret(Log[1].ret.val)

\* a linear sampler asked of a factory whose last sampler was another kind
C10_Witness ==
  /\ After("create_sampler_linear")
  /\ call.pre.sampler.filter = "Bilinear"
  /\ call.pre.sampler.wrap_mode = <<"Tile", "Tile", "Tile">>
  /\ call.pre.next > 0

====
